---- MODULE Spec2Model ----
(***************************************************************************)
(* A model of the Wordle strategy explorer: wordle_utils.pyx (the guess    *)
(* evaluator, the candidate enumerator, the scoring function and the       *)
(* FairLimitedHeap) and strategies.pyx (Strategy.solve_from and the        *)
(* SpecifyInitialGuessesMixIn family).                                     *)
(*                                                                         *)
(* Letters are the numbers 1..26 (a..z); a word is a tuple of letters; a   *)
(* Python str is a sequence of character codes.  Python set objects live   *)
(* in `store` (a sequence of set values indexed by object identity) and a  *)
(* possibilities dict maps the positions 1..5 to object identities, so     *)
(* that an in-place set.discard is seen through every reference.           *)
(***************************************************************************)
EXTENDS Integers, Sequences, FiniteSets, TLC

VARIABLES
    known_five_letter_words, \* module global: the set of corpus words
    word_list_text,          \* module global: '\n'.join(sorted(words))
    cls,                     \* the Strategy class solve_from is called on
    answer,                  \* solve_from / evaluate_guess argument
    start_from,              \* solve_from argument
    pc,                      \* where the running call is
    guesses,                 \* mixin local: the openings not yet popped
    guess,                   \* local: the pending guess (None = <<>>)
    possibilities,           \* local: dict position -> set object
    unknown_pos,             \* local: str of known-but-unplaced letters
    ret,                     \* local: the list of SolutionData records
    store,                   \* the set objects: identity -> current value
    result,                  \* what the outermost solve_from returned
    hist,                    \* history: what each evaluated guess saw
    call,                    \* history: the last evaluate_guess/enumerate call
    heap,                    \* a FairLimitedHeap instance with its history
    solutions,               \* Strategy.solve local: starting word -> result
    solve_ret,               \* what Strategy.solve returned (None = <<>>)
    constraints              \* solve_from argument (None = <<>>)

vars == <<known_five_letter_words, word_list_text, cls, answer, start_from, pc,
          guesses, guess, possibilities, unknown_pos, ret, store, result,
          hist, call, heap, solutions, solve_ret, constraints>>

----------------------------------------------------------------------------
(* Program constants *)

AlphabetSize == 26
WordLen == 5
NL == 0
LBRACKET == 91
RBRACKET == 93

ascii_lowercase == 1..AlphabetSize
Positions == 1..WordLen
None == <<>>

Range(s) == {s[i] : i \in DOMAIN s}

Min(S) == CHOOSE x \in S : \A y \in S : x <= y

\* sorted(S) for a set of characters
RECURSIVE SortedChars(_)
SortedChars(S) ==
    IF S = {} THEN <<>> ELSE <<Min(S)>> \o SortedChars(S \ {Min(S)})

\* Python's str/tuple comparison a < b
RECURSIVE SeqLess(_, _)
SeqLess(a, b) ==
    IF b = <<>> THEN FALSE
    ELSE IF a = <<>> THEN TRUE
    ELSE IF a[1] # b[1] THEN a[1] < b[1]
    ELSE SeqLess(Tail(a), Tail(b))

MinWord(S) == CHOOSE w \in S : \A v \in S : v = w \/ SeqLess(w, v)

\* sorted(S) for a set of words
RECURSIVE SortedWords(_)
SortedWords(S) ==
    IF S = {} THEN <<>> ELSE <<MinWord(S)>> \o SortedWords(S \ {MinWord(S)})

\* sep.join(list)
RECURSIVE Join(_, _)
Join(sep, list) ==
    IF list = <<>> THEN <<>>
    ELSE IF Len(list) = 1 THEN list[1]
    ELSE list[1] \o sep \o Join(sep, Tail(list))

\* ''.join([c for c in s if c != g])
RemoveChar(s, g) == SelectSeq(s, LAMBDA c : c # g)

\* the current values of the set objects a dict refers to
Deref(d, st) == [p \in DOMAIN d |-> st[d[p]]]

\* {i: set(string.ascii_lowercase) for i in range(1, 6)}: five new set objects
FreshDict(st) == [p \in Positions |-> Len(st) + p]
FreshStore(st) == st \o [p \in Positions |-> ascii_lowercase]

\* constraints or {...}: the caller's five set objects when a dict is passed
ConstraintsOrFresh(st, c) == IF c = None THEN FreshStore(st) ELSE st \o c

----------------------------------------------------------------------------
(* wordle_utils.evaluate_guess *)

\* green tile: revised_poss[1+pos] = set(guess_c), a new set object, and
\* guess_c leaves unknown_pos
Green(st, pos, guess_c) ==
    [revised_poss |-> [st.revised_poss EXCEPT ![pos] = Len(st.store) + 1],
     store |-> Append(st.store, {guess_c}),
     unknown_pos |-> RemoveChar(st.unknown_pos, guess_c)]

\* Yellow with the letter discarded from every position's set
YellowDiscardsEverywhere(st, pos, guess_c) ==
    [revised_poss |-> st.revised_poss,
     store |-> [i \in DOMAIN st.store |->
                  IF i \in Range(st.revised_poss) THEN st.store[i] \ {guess_c}
                  ELSE st.store[i]],
     unknown_pos |-> Append(st.unknown_pos, guess_c)]

\* yellow tile: unknown_pos += guess_c; revised_poss[1+pos].discard(guess_c),
\* in place on the set object the dict refers to
Yellow(st, pos, guess_c) ==
    [revised_poss |-> st.revised_poss,
     store |-> [st.store EXCEPT ![st.revised_poss[pos]] = @ \ {guess_c}],
     unknown_pos |-> Append(st.unknown_pos, guess_c)]

\* gray tile: revised_poss = {key: value - {guess_c} ...}, every value a new
\* set object, and guess_c leaves unknown_pos
Gray(st, pos, guess_c) ==
    [revised_poss |-> [k \in DOMAIN st.revised_poss |-> Len(st.store) + k],
     store |-> st.store \o
               [k \in DOMAIN st.revised_poss |->
                   st.store[st.revised_poss[k]] \ {guess_c}],
     unknown_pos |-> RemoveChar(st.unknown_pos, guess_c)]

\* the loop body with the yellow branch left out
EvalPosWithoutYellow(st, pos, g, a) ==
    IF g[pos] = a[pos] THEN Green(st, pos, g[pos])
    ELSE Gray(st, pos, g[pos])

\* one iteration of the for loop over zip(guess, answer)
EvalPos(st, pos, g, a) ==
    IF g[pos] = a[pos] THEN Green(st, pos, g[pos])
    ELSE IF g[pos] \in Range(a) THEN Yellow(st, pos, g[pos])
    ELSE Gray(st, pos, g[pos])

RECURSIVE EvalLoop(_, _, _, _)
EvalLoop(st, pos, g, a) ==
    IF pos > WordLen THEN st
    ELSE EvalLoop(EvalPos(st, pos, g, a), pos + 1, g, a)

\* (guess == answer)
SameLength(g, a) == Len(g) = Len(a)

IsAnswer(g, a) == g = a

evaluate_guess(g, a, poss, unk, st) ==
    IF ~(Len(g) = Len(a) /\ Len(a) = WordLen)
    THEN [raised |-> "AssertionError", solved |-> FALSE, unknown_pos |-> unk,
          revised_poss |-> poss, store |-> st]
    ELSE LET end == EvalLoop([revised_poss |-> poss, store |-> st,
                              unknown_pos |-> unk], 1, g, a)
         IN  [raised |-> "",
              solved |-> IsAnswer(g, a),
              unknown_pos |-> SortedChars(Range(end.unknown_pos)),
              revised_poss |-> end.revised_poss,
              store |-> end.store]

----------------------------------------------------------------------------
(* wordle_utils.word_list_text and wordle_utils.enumerate_solutions *)

\* word_list_text = '\n'.join(sorted(known_five_letter_words))
WordListText(words) == Join(<<NL>>, SortedWords(words))

\* ''.join([f"[{''.join(sorted(i))}]" for i in possible.values()]) + "\n"
RECURSIVE RegexText(_)
RegexText(values) ==
    IF values = <<>> THEN <<NL>>
    ELSE <<LBRACKET>> \o SortedChars(values[1]) \o <<RBRACKET>>
         \o RegexText(Tail(values))

\* re's parse of a character set that opened just before s[i]: a "]" closes the
\* set unless it is the set's first character, any other character is a member,
\* and the end of the pattern inside a set is an error
RECURSIVE ParseSet(_, _, _)
ParseSet(s, i, members) ==
    IF i > Len(s) THEN [error |-> TRUE, next |-> i, members |-> members]
    ELSE IF s[i] = RBRACKET /\ members # {}
    THEN [error |-> FALSE, next |-> i + 1, members |-> members]
    ELSE ParseSet(s, i + 1, members \cup {s[i]})

\* re's parse of the pattern from s[i] on: a sequence of one-character atoms,
\* each the set of characters it matches
RECURSIVE ParseRegex(_, _)
ParseRegex(s, i) ==
    IF i > Len(s) THEN [error |-> FALSE, atoms |-> <<>>]
    ELSE IF s[i] = LBRACKET
    THEN LET set == ParseSet(s, i + 1, {})
         IN  IF set.error THEN [error |-> TRUE, atoms |-> <<>>]
             ELSE LET rest == ParseRegex(s, set.next)
                  IN  [error |-> rest.error,
                       atoms |-> <<set.members>> \o rest.atoms]
    ELSE LET rest == ParseRegex(s, i + 1)
         IN  [error |-> rest.error, atoms |-> <<{s[i]}>> \o rest.atoms]

MatchAt(atoms, text, i) ==
    /\ i + Len(atoms) - 1 <= Len(text)
    /\ \A k \in DOMAIN atoms : text[i + k - 1] \in atoms[k]

\* re.findall(regex, text): the non-overlapping matches, leftmost first
RECURSIVE FindAll(_, _, _)
FindAll(atoms, text, i) ==
    IF i > Len(text) \/ atoms = <<>> THEN <<>>
    ELSE IF MatchAt(atoms, text, i)
    THEN <<SubSeq(text, i, i + Len(atoms) - 1)>>
         \o FindAll(atoms, text, i + Len(atoms))
    ELSE FindAll(atoms, text, i + 1)

\* str.strip(): the matches hold no white space but the newline
RECURSIVE Strip(_)
Strip(s) ==
    IF s = <<>> THEN s
    ELSE IF s[1] = NL THEN Strip(Tail(s))
    ELSE IF s[Len(s)] = NL THEN Strip(SubSeq(s, 1, Len(s) - 1))
    ELSE s

\* the number of occurrences of c in the string s
RECURSIVE CountChar(_, _)
CountChar(s, c) ==
    IF s = <<>> THEN 0
    ELSE (IF s[1] = c THEN 1 ELSE 0) + CountChar(Tail(s), c)

\* collections.Counter(''.join(list)); a Counter reads 0 for an absent key
Counter(list) ==
    LET joined == Join(<<>>, list)
    IN  [c \in ascii_lowercase |-> CountChar(joined, c)]

\* possible_values is possible.values(): the sets in the dict's order
enumerate_solutions(possible_values, ambiguous_pos, text) ==
    LET regex == ParseRegex(RegexText(possible_values), 1)
    IN  IF regex.error
        THEN [raised |-> "re.error", possible_answers |-> <<>>,
              letter_frequencies |-> Counter(<<>>)]
        ELSE LET found == FindAll(regex.atoms, text, 1)
                 stripped == [i \in DOMAIN found |-> Strip(found[i])]
                 possible_answers ==
                     SelectSeq(stripped,
                               LAMBDA ans : \A c \in Range(ambiguous_pos) :
                                               c \in Range(ans))
             IN  [raised |-> "", possible_answers |-> possible_answers,
                  letter_frequencies |-> Counter(possible_answers)]

\* dict.values() of a possibilities dict, as current set values
Values(d, st) == [p \in DOMAIN d |-> st[d[p]]]

----------------------------------------------------------------------------
(* wordle_utils.untried_word_score and the Strategy score methods *)

\* SumFirstUntried counting every occurrence of an untried letter
RECURSIVE SumEveryUntried(_, _, _, _)
SumEveryUntried(letter_frequencies, untried_letters, w, i) ==
    IF i > Len(w) THEN 0
    ELSE (IF w[i] \in Range(untried_letters)
          THEN letter_frequencies[w[i]] ELSE 0)
         + SumEveryUntried(letter_frequencies, untried_letters, w, i + 1)

\* sum([letter_frequencies[c] for i, c in enumerate(w)
\*      if ((c in untried_letters) and (c not in w[:i]))]) * len(set(w))
RECURSIVE SumFirstUntried(_, _, _, _)
SumFirstUntried(letter_frequencies, untried_letters, w, i) ==
    IF i > Len(w) THEN 0
    ELSE (IF w[i] \in Range(untried_letters)
             /\ w[i] \notin Range(SubSeq(w, 1, i - 1))
          THEN letter_frequencies[w[i]] ELSE 0)
         + SumFirstUntried(letter_frequencies, untried_letters, w, i + 1)

untried_word_score(letter_frequencies, untried_letters, w) ==
    SumFirstUntried(letter_frequencies, untried_letters, w, 1)
        * Cardinality(Range(w))

\* the scores a Strategy's score method can give the words of `list`:
\* GetMaximumInfoHardMode.score is untried_word_score; RandomChoiceOnEachTurn
\* draws random.random() per word, modelled by RandomLevels distinct values
RandomLevels == 2

ScoreChoices(c, letter_frequencies, untried_letters, list) ==
    IF c.score = "untried_word_score"
    THEN {[i \in DOMAIN list |->
             untried_word_score(letter_frequencies, untried_letters, list[i])]}
    ELSE [DOMAIN list -> 0..(RandomLevels - 1)]

\* the keys of {sol: ... for sol in list}: first occurrences, in order
RECURSIVE DictKeys(_)
DictKeys(list) ==
    IF list = <<>> THEN <<>>
    ELSE LET front == DictKeys(SubSeq(list, 1, Len(list) - 1))
             last == list[Len(list)]
         IN  IF last \in Range(front) THEN front ELSE Append(front, last)

\* SortedByScore with the words of equal score in reverse order
RECURSIVE SortedByScoreTiesReversed(_, _)
SortedByScoreTiesReversed(keys, scores) ==
    IF keys = <<>> THEN <<>>
    ELSE LET best == CHOOSE i \in DOMAIN keys :
                        /\ \A j \in DOMAIN keys : scores[j] <= scores[i]
                        /\ \A j \in (i + 1)..Len(keys) : scores[j] < scores[i]
             drop(q) == [j \in 1..(Len(q) - 1) |->
                            IF j < best THEN q[j] ELSE q[j + 1]]
         IN  <<keys[best]>> \o SortedByScoreTiesReversed(drop(keys), drop(scores))

\* dict(sorted(possible_answers.items(), key=lambda kv: kv[1], reverse=True)):
\* the keys by descending score; Python's sort is stable, also when reversed
RECURSIVE SortedByScore(_, _)
SortedByScore(keys, scores) ==
    IF keys = <<>> THEN <<>>
    ELSE LET best == CHOOSE i \in DOMAIN keys :
                        /\ \A j \in DOMAIN keys : scores[j] <= scores[i]
                        /\ \A j \in 1..(i - 1) : scores[j] < scores[i]
             drop(q) == [j \in 1..(Len(q) - 1) |->
                            IF j < best THEN q[j] ELSE q[j + 1]]
         IN  <<keys[best]>> \o SortedByScore(drop(keys), drop(scores))

\* ''.join([c for c in string.ascii_lowercase
\*          if c not in ''.join(i.Move for i in ret)])
UntriedLetters(moves) ==
    SortedChars(ascii_lowercase \ UNION {Range(moves[i].Move) : i \in DOMAIN moves})

----------------------------------------------------------------------------
(* The Strategy classes *)

arose == <<1, 18, 15, 19, 5>>
cider == <<3, 9, 4, 5, 18>>
curly == <<3, 21, 18, 12, 25>>
hasty == <<8, 1, 19, 20, 25>>
point == <<16, 15, 9, 14, 20>>
shade == <<19, 8, 1, 4, 5>>
sooty == <<19, 15, 15, 20, 25>>
until == <<21, 14, 20, 9, 12>>

bight == <<2, 9, 7, 8, 20>>
eight == <<5, 9, 7, 8, 20>>
fight == <<6, 9, 7, 8, 20>>
light == <<12, 9, 7, 8, 20>>
might == <<13, 9, 7, 8, 20>>
night == <<14, 9, 7, 8, 20>>
right == <<18, 9, 7, 8, 20>>
sight == <<19, 9, 7, 8, 20>>
tight == <<20, 9, 7, 8, 20>>
wight == <<23, 9, 7, 8, 20>>

\* reduction_needed_to_abort is kept in hundredths; NoReduction is None
NoReduction == -1

StrategyClass(name, score, mixin, tries, bail, reduction) ==
    [name |-> name, score |-> score, mixin |-> mixin, _initial_tries |-> tries,
     bail |-> bail, reduction_needed_to_abort |-> reduction]

GetMaximumInfoHardMode ==
    StrategyClass("GetMaximumInfoHardMode", "untried_word_score", FALSE, <<>>,
                  FALSE, NoReduction)
RandomChoiceOnEachTurn ==
    StrategyClass("RandomChoiceOnEachTurn", "random", FALSE, <<>>, FALSE,
                  NoReduction)
ShadePointCurlyThenGetMaximumInfoHardMode ==
    StrategyClass("ShadePointCurlyThenGetMaximumInfoHardMode",
                  "untried_word_score", TRUE, <<shade, point, curly>>, FALSE,
                  NoReduction)
ShadePointCurlyThenGetMaximumInfoHardModeAndBailEarly50 ==
    StrategyClass("ShadePointCurlyThenGetMaximumInfoHardModeAndBailEarly50",
                  "untried_word_score", TRUE, <<shade, point, curly>>, TRUE, 50)
ShadePointCurlyThenGetMaximumInfoHardModeAndBailEarly70 ==
    StrategyClass("ShadePointCurlyThenGetMaximumInfoHardModeAndBailEarly70",
                  "untried_word_score", TRUE, <<shade, point, curly>>, TRUE, 70)
ShadePointCurlyThenGetMaximumInfoHardModeAndBailEarly99 ==
    StrategyClass("ShadePointCurlyThenGetMaximumInfoHardModeAndBailEarly99",
                  "untried_word_score", TRUE, <<shade, point, curly>>, TRUE, 99)
\* subclasses of the mix-in that the module does not declare: two openings with
\* a random delegate, and _initial_tries left at its default ()
ShadePointThenRandomChoice ==
    StrategyClass("ShadePointThenRandomChoice", "random", TRUE,
                  <<shade, point>>, FALSE, NoReduction)
NoInitialGuessesThenGetMaximumInfoHardMode ==
    StrategyClass("NoInitialGuessesThenGetMaximumInfoHardMode",
                  "untried_word_score", TRUE, <<>>, FALSE, NoReduction)
\* subclasses of BailEarlyByPercentageReductionMixIn that leave
\* reduction_needed_to_abort at None, or set it to 1.5
ShadePointCurlyThenGetMaximumInfoHardModeAndBailEarlyUnset ==
    StrategyClass("ShadePointCurlyThenGetMaximumInfoHardModeAndBailEarlyUnset",
                  "untried_word_score", TRUE, <<shade, point, curly>>, TRUE,
                  NoReduction)
ShadePointCurlyThenGetMaximumInfoHardModeAndBailEarly150 ==
    StrategyClass("ShadePointCurlyThenGetMaximumInfoHardModeAndBailEarly150",
                  "untried_word_score", TRUE, <<shade, point, curly>>, TRUE, 150)

\* SpecifyInitialGuessesMixIn._delegation_class: the first base class that is
\* not a SpecifyInitialGuessesMixIn; it keeps the score method
_delegation_class(c) ==
    StrategyClass(IF c.score = "random" THEN "RandomChoiceOnEachTurn"
                  ELSE "GetMaximumInfoHardMode",
                  c.score, FALSE, <<>>, FALSE, NoReduction)

\* _abort_early: SpecifyInitialGuessesMixIn's returns False;
\* BailEarlyByPercentageReductionMixIn's asserts and then compares
\* len(possibilities) < (1.0 - reduction_needed_to_abort) * len(words)
AbortAsserts(c) ==
    ~c.bail \/ (c.reduction_needed_to_abort # NoReduction
                /\ 0 <= c.reduction_needed_to_abort
                /\ c.reduction_needed_to_abort <= 100)

\* The comparison is made on IEEE doubles. For h hundredths, 50 <= h <= 100,
\* the double nearest h/100 is h/100 - FloatError(h) / (100 * 2^53), and
\* 1.0 minus it is exact: (100 - h)/100 + FloatError(h) / (100 * 2^53)
FloatError(h) ==
    LET frac == (92 * h) % 100      \* 2^53 % 100 = 92
    IN  IF frac < 50 THEN frac ELSE frac - 100

\* the largest power of two that is at most n, n >= 1
RECURSIVE Pow2Floor(_)
Pow2Floor(n) == IF n < 2 THEN 1 ELSE 2 * Pow2Floor(n \div 2)

\* n < (1.0 - h/100) * size in doubles: decided by the exact product unless
\* that is the integer n itself, when the product rounds above n only if its
\* excess over n is more than half the spacing of the doubles at n
FloatLess(n, h, size) ==
    \/ 100 * n < (100 - h) * size
    \/ /\ 100 * n = (100 - h) * size
       /\ n >= 1
       /\ FloatError(h) * size > 100 * Pow2Floor(n)

_abort_early(c, remaining, words) ==
    /\ c.bail
    /\ FloatLess(Len(remaining), c.reduction_needed_to_abort,
                 Cardinality(words))

----------------------------------------------------------------------------
(* Strategy.solve_from and SpecifyInitialGuessesMixIn.solve_from *)

NoCall == [op |-> "none"]
NoHeap == [_soft_limit |-> 0, _data |-> <<>>, pushed |-> 0, evicted |-> {},
           last |-> <<>>]

Running == [kind |-> "running", trace |-> <<>>, exc |-> ""]
ReturnedNone == [kind |-> "None", trace |-> <<>>, exc |-> ""]
ReturnedTrace(moves) == [kind |-> "trace", trace |-> moves, exc |-> ""]
Raised(e, moves) == [kind |-> "raised", trace |-> moves, exc |-> e]

\* wu.SolutionData(...): the two PossibleLetters fields keep references to the
\* set objects of the dicts, the other fields are values
SolutionData(move, poss, unk, new_poss, new_unk, possible_answers, st, done) ==
    [Move |-> move,
     InitialPossibleLetters |-> poss,
     KnownLettersWithUnknownPositionBeforeGuess |-> unk,
     PossibleLettersAfterGuess |-> new_poss,
     KnownLettersWithUnknownPositionAfterGuess |-> new_unk,
     RemainingPossibilities |-> Len(possible_answers),
     ExhaustedErroneously |-> (\E p \in DOMAIN poss : st[poss[p]] = {}),
     Solved |-> done]

\* what one pass of a solve_from loop saw and computed
HistEntry(by, g, before, unk, ev, untried, en, keys, scores, ranked) ==
    [by |-> by, guess |-> g, before |-> before, unknown_before |-> unk,
     after |-> Deref(ev.revised_poss, ev.store),
     unknown_after |-> ev.unknown_pos, untried_letters |-> untried,
     remaining |-> en.possible_answers, keys |-> keys, scores |-> scores,
     ranked |-> ranked]

NoEval(poss, unk, st) ==
    [raised |-> "", solved |-> FALSE, unknown_pos |-> unk,
     revised_poss |-> poss, store |-> st]

Globals == <<known_five_letter_words, word_list_text, cls, answer, start_from,
             constraints>>
Others == <<call, heap, solutions, solve_ret>>

Finish(res, moves, st, h) ==
    /\ pc' = "returned"
    /\ result' = res
    /\ ret' = moves
    /\ store' = st
    /\ hist' = h
    /\ UNCHANGED <<guesses, guess, possibilities, unknown_pos>>

\* the call cls.solve_from(answer, start_from), up to the first loop test
solve_from ==
    /\ pc = "call"
    /\ IF cls.mixin /\ cls._initial_tries # <<>>
          /\ cls._initial_tries[1] # start_from
       THEN Finish(ReturnedNone, ret, store, hist)
       ELSE IF cls.mixin /\ cls._initial_tries = <<>>
       THEN \* `while guesses and not done` is not entered: falls off the end
            Finish(ReturnedNone, ret, ConstraintsOrFresh(store, constraints), hist)
       ELSE /\ pc' = IF cls.mixin THEN "mixin" ELSE "strategy"
            /\ possibilities' = FreshDict(store)
            /\ store' = ConstraintsOrFresh(store, constraints)
            /\ guesses' = cls._initial_tries
            /\ guess' = start_from
            /\ unknown_pos' = <<>>
            /\ ret' = <<>>
            /\ UNCHANGED <<result, hist>>
    /\ UNCHANGED <<Globals, Others>>

\* one pass of the while loop of Strategy.solve_from
\* list(possible_answers.keys())[0]
FirstOfCorpus(possible_answers) == SortedWords(known_five_letter_words)[1]

FirstKey(possible_answers) == possible_answers[1]

Strategy_solve_from ==
    /\ pc = "strategy"
    /\ LET before == Deref(possibilities, store)
           ev == IF guess # None
                 THEN evaluate_guess(guess, answer, possibilities, unknown_pos,
                                     store)
                 ELSE NoEval(possibilities, unknown_pos, store)
       IN  IF ev.raised # ""
           THEN Finish(Raised(ev.raised, ret), ret, ev.store, hist)
           ELSE
           LET untried_letters == UntriedLetters(ret)
               en == enumerate_solutions(Values(ev.revised_poss, ev.store),
                                         ev.unknown_pos, word_list_text)
               keys == DictKeys(en.possible_answers)
           IN  IF en.raised # ""
               THEN Finish(Raised(en.raised, ret), ret, ev.store, hist)
               ELSE
               \E scores \in ScoreChoices(cls, en.letter_frequencies,
                                          untried_letters, keys) :
               LET possible_answers == SortedByScore(keys, scores)
                   done == guess # None /\ (ev.solved \/ Len(ret) > 5)
                   moves == IF guess # None
                            THEN Append(ret,
                                   SolutionData(guess, possibilities,
                                       unknown_pos, ev.revised_poss,
                                       ev.unknown_pos, possible_answers,
                                       ev.store, done))
                            ELSE ret
                   h == Append(hist,
                               HistEntry("strategy", guess, before, unknown_pos,
                                         ev, untried_letters, en, keys, scores,
                                         possible_answers))
               IN  IF done
                   THEN Finish(ReturnedTrace(moves), moves, ev.store, h)
                   ELSE IF possible_answers = <<>>
                   THEN \* list(possible_answers.keys())[0]
                        Finish(Raised("IndexError", moves), moves, ev.store, h)
                   ELSE /\ guess' = FirstKey(possible_answers)
                        /\ possibilities' = ev.revised_poss
                        /\ unknown_pos' = ev.unknown_pos
                        /\ store' = ev.store
                        /\ ret' = moves
                        /\ hist' = h
                        /\ UNCHANGED <<pc, result, guesses>>
    /\ UNCHANGED <<Globals, Others>>

\* PopFirst as guesses.pop(): the last item
PopLast(list) ==
    [item |-> list[Len(list)], list |-> SubSeq(list, 1, Len(list) - 1)]

\* guesses.pop(0): the item and the list afterwards
PopFirst(list) == [item |-> Head(list), list |-> Tail(list)]

\* one pass of the while loop of SpecifyInitialGuessesMixIn.solve_from
SpecifyInitialGuessesMixIn_solve_from ==
    /\ pc = "mixin"
    /\ LET popped == PopFirst(guesses).item
           rest == PopFirst(guesses).list
       IN  IF rest = <<>>
           THEN \* _delegation_class().solve_from(answer, guess, ret, unknown_pos)
                /\ pc' = "strategy"
                /\ guess' = popped
                /\ guesses' = rest
                /\ possibilities' = FreshDict(store)
                /\ store' = FreshStore(store)
                /\ UNCHANGED <<unknown_pos, ret, result, hist>>
           ELSE
           LET before == Deref(possibilities, store)
               ev == evaluate_guess(popped, answer, possibilities, unknown_pos,
                                    store)
           IN  IF ev.raised # ""
               THEN Finish(Raised(ev.raised, ret), ret, ev.store, hist)
               ELSE
               LET untried_letters == UntriedLetters(ret)
                   en == enumerate_solutions(Values(ev.revised_poss, ev.store),
                                             ev.unknown_pos, word_list_text)
                   keys == DictKeys(en.possible_answers)
               IN  IF en.raised # ""
                   THEN Finish(Raised(en.raised, ret), ret, ev.store, hist)
                   ELSE
                   \E scores \in ScoreChoices(cls, en.letter_frequencies,
                                              untried_letters, keys) :
                   LET possible_answers == SortedByScore(keys, scores)
                       done == ev.solved \/ Len(ret) > 5
                       moves == Append(ret,
                                   SolutionData(popped, possibilities,
                                       unknown_pos, ev.revised_poss,
                                       ev.unknown_pos, possible_answers,
                                       ev.store, done))
                       h == Append(hist,
                                   HistEntry("mixin", popped, before,
                                             unknown_pos, ev, untried_letters,
                                             en, keys, scores, possible_answers))
                       poss2 == IF done THEN possibilities ELSE ev.revised_poss
                       unk2 == IF done THEN unknown_pos ELSE ev.unknown_pos
                   IN  IF Len(moves) < Len(cls._initial_tries) /\ cls.bail
                          /\ ~AbortAsserts(cls)
                       THEN Finish(Raised("AssertionError", moves), moves,
                                   ev.store, h)
                       ELSE IF Len(moves) < Len(cls._initial_tries)
                               /\ _abort_early(cls, en.possible_answers,
                                               known_five_letter_words)
                       THEN \* _delegation_class().solve_from(answer, None, ret,
                            \*                    unknown_pos, possibilities)
                            /\ pc' = "strategy"
                            /\ guess' = None
                            /\ guesses' = rest
                            /\ possibilities' = poss2
                            /\ unknown_pos' = unk2
                            /\ store' = ev.store
                            /\ ret' = moves
                            /\ hist' = h
                            /\ UNCHANGED result
                       ELSE IF done
                       THEN \* the loop ends and the method falls off its end
                            Finish(ReturnedNone, moves, ev.store, h)
                       ELSE /\ guess' = popped
                            /\ guesses' = rest
                            /\ possibilities' = poss2
                            /\ unknown_pos' = unk2
                            /\ store' = ev.store
                            /\ ret' = moves
                            /\ hist' = h
                            /\ UNCHANGED <<pc, result>>
    /\ UNCHANGED <<Globals, Others>>

CorpusA == {arose, cider, curly, hasty, point, shade, sooty, until}
CorpusB == {bight, eight, fight, light, might, night, right, sight, tight, wight}
CorpusC == CorpusA \cup {tight, wight}
CorpusD == {arose, until, sooty, cider}

StrategiesA ==
    {GetMaximumInfoHardMode, RandomChoiceOnEachTurn,
     ShadePointCurlyThenGetMaximumInfoHardMode,
     ShadePointCurlyThenGetMaximumInfoHardModeAndBailEarly50,
     ShadePointCurlyThenGetMaximumInfoHardModeAndBailEarly99,
     ShadePointThenRandomChoice, NoInitialGuessesThenGetMaximumInfoHardMode,
     ShadePointCurlyThenGetMaximumInfoHardModeAndBailEarlyUnset,
     ShadePointCurlyThenGetMaximumInfoHardModeAndBailEarly150}

Scenarios ==
    {[words |-> CorpusA, cls |-> c] : c \in StrategiesA}
        \cup {[words |-> CorpusB, cls |-> GetMaximumInfoHardMode]}
        \cup {[words |-> CorpusC,
               cls |-> ShadePointCurlyThenGetMaximumInfoHardModeAndBailEarly70]}
        \cup {[words |-> CorpusD, cls |-> GetMaximumInfoHardMode]}

Init ==
    /\ \E sc \in Scenarios :
          /\ known_five_letter_words = sc.words
          /\ word_list_text = WordListText(sc.words)
          /\ cls = sc.cls
          /\ answer \in sc.words
          /\ start_from \in sc.words
    /\ pc = "call"
    /\ guesses = <<>>
    /\ guess = None
    /\ possibilities = <<>>
    /\ unknown_pos = <<>>
    /\ ret = <<>>
    /\ store = <<>>
    /\ result = Running
    /\ hist = <<>>
    /\ call = NoCall
    /\ solutions = <<>>
    /\ solve_ret = None
    /\ constraints = None
    /\ heap = NoHeap

Next ==
    \/ solve_from
    \/ Strategy_solve_from
    \/ SpecifyInitialGuessesMixIn_solve_from

Spec == Init /\ [][Next]_vars

----------------------------------------------------------------------------
(* wordle_utils.FairLimitedHeap, on heapq *)

\* heapq._siftdown(heap, startpos, pos); list positions are 0-based
RECURSIVE SiftDownLoop(_, _, _, _)
SiftDownLoop(h, startpos, pos, newitem) ==
    IF pos > startpos /\ SeqLess(newitem, h[((pos - 1) \div 2) + 1])
    THEN SiftDownLoop([h EXCEPT ![pos + 1] = h[((pos - 1) \div 2) + 1]],
                      startpos, (pos - 1) \div 2, newitem)
    ELSE [h EXCEPT ![pos + 1] = newitem]

_siftdown(h, startpos, pos) == SiftDownLoop(h, startpos, pos, h[pos + 1])

\* heapq._siftup(heap, pos)
RECURSIVE SiftUpLoop(_, _, _)
SiftUpLoop(h, pos, childpos) ==
    IF childpos < Len(h)
    THEN LET rightpos == childpos + 1
             c == IF rightpos < Len(h)
                     /\ ~SeqLess(h[childpos + 1], h[rightpos + 1])
                  THEN rightpos ELSE childpos
         IN  SiftUpLoop([h EXCEPT ![pos + 1] = h[c + 1]], c, 2 * c + 1)
    ELSE [h |-> h, pos |-> pos]

_siftup(h, pos) ==
    LET newitem == h[pos + 1]
        down == SiftUpLoop(h, pos, 2 * pos + 1)
    IN  _siftdown([down.h EXCEPT ![down.pos + 1] = newitem], pos, down.pos)

\* heapq.heappush(heap, item): the list afterwards
heappush(h, entry) == _siftdown(Append(h, entry), 0, Len(h))

\* list.pop() in the place of heapq.heappop: the last entry of the array
ListPop(h) ==
    [heap |-> SubSeq(h, 1, Len(h) - 1), returnitem |-> h[Len(h)]]

\* heapq.heappop(heap): the list afterwards and the entry returned
heappop(h) ==
    LET lastelt == h[Len(h)]
        rest == SubSeq(h, 1, Len(h) - 1)
    IN  IF rest # <<>>
        THEN [heap |-> _siftup([rest EXCEPT ![1] = lastelt], 0),
              returnitem |-> rest[1]]
        ELSE [heap |-> rest, returnitem |-> lastelt]

\* for index, item in enumerate(self._data): ... break; the value of index
\* after the loop, scanning the list in its stored order
RECURSIVE ScanIndex(_, _)
ScanIndex(data, index) ==
    IF index > Len(data) - 1 THEN Len(data) - 1
    ELSE IF index # 0 /\ data[index + 1][1] # data[1][1] THEN index
    ELSE ScanIndex(data, index + 1)

\* for i in range(index): heapq.heappop(self._data)
RECURSIVE PopTimes(_, _)
PopTimes(data, n) ==
    IF n <= 0 THEN [data |-> data, popped |-> <<>>]
    ELSE LET one == heappop(data)
             more == PopTimes(one.heap, n - 1)
         IN  [data |-> more.data, popped |-> <<one.returnitem>> \o more.popped]

\* push without the test that at least soft_limit entries would remain
pushWithoutRemainTest(data, limit, item, value) ==
    LET pushed == heappush(data, <<value, item>>)
        index == ScanIndex(pushed, 0)
    IN  IF Len(pushed) <= limit THEN [data |-> pushed, popped |-> <<>>]
        ELSE PopTimes(pushed, index)

\* FairLimitedHeap.push(item, value) on the list data with soft limit limit
push(data, limit, item, value) ==
    LET pushed == heappush(data, <<value, item>>)
        index == ScanIndex(pushed, 0)
    IN  IF Len(pushed) <= limit THEN [data |-> pushed, popped |-> <<>>]
        ELSE IF Len(pushed) - index >= limit THEN PopTimes(pushed, index)
        ELSE [data |-> pushed, popped |-> <<>>]

NumValues == 3
NumItems == 2
MaxSoftLimit == 3
MaxPushes == 4

\* FairLimitedHeap(soft_limit)
InitHeap ==
    /\ heap \in {[_soft_limit |-> n, _data |-> <<>>, pushed |-> 0,
                  evicted |-> {}, last |-> <<>>] : n \in 1..MaxSoftLimit}
    /\ known_five_letter_words = {}
    /\ word_list_text = <<>>
    /\ cls = GetMaximumInfoHardMode
    /\ answer = None
    /\ start_from = None
    /\ pc = "heap"
    /\ guesses = <<>>
    /\ guess = None
    /\ possibilities = <<>>
    /\ unknown_pos = <<>>
    /\ ret = <<>>
    /\ store = <<>>
    /\ result = Running
    /\ hist = <<>>
    /\ call = NoCall
    /\ solutions = <<>>
    /\ solve_ret = None
    /\ constraints = None

\* self.push(item, value)
FairLimitedHeap_push ==
    /\ pc = "heap"
    /\ heap.pushed < MaxPushes
    /\ \E item \in 1..NumItems, value \in 1..NumValues :
          LET r == push(heap._data, heap._soft_limit, item, value)
          IN  heap' = [heap EXCEPT
                          !._data = r.data,
                          !.pushed = @ + 1,
                          !.evicted = @ \cup Range(r.popped),
                          !.last = [before |-> heap._data,
                                    entry |-> <<value, item>>,
                                    popped |-> r.popped]]
    /\ call' = NoCall
    /\ UNCHANGED <<Globals, pc, guesses, guess, possibilities, unknown_pos, ret,
                   store, result, hist, solutions, solve_ret>>

NextHeap == FairLimitedHeap_push

SpecHeap == InitHeap /\ [][NextHeap]_vars

\* sorted(list) on (value, item) tuples
Unsorted(list) == list

RECURSIVE sorted(_)
sorted(list) ==
    IF list = <<>> THEN <<>>
    ELSE LET i == CHOOSE i \in 1..Len(list) :
                      \A j \in 1..Len(list) :
                          /\ ~SeqLess(list[j], list[i])
                          /\ (j < i => list[j] # list[i])
         IN  <<list[i]>> \o sorted(SubSeq(list, 1, i - 1)
                                      \o SubSeq(list, i + 1, Len(list)))

\* FairLimitedHeap.as_sorted_list(include_values)
as_sorted_list(data, include_values) ==
    [data |-> data,
     out  |-> IF include_values
              THEN sorted(data)
              ELSE [i \in 1..Len(data) |-> sorted(data)[i][2]]]

\* FairLimitedHeap.pop(also_return_score)
pop(data, also_return_score) ==
    IF also_return_score
    THEN IF data = <<>>
         THEN [raised |-> "IndexError", data |-> data, out |-> None]
         ELSE [raised |-> "", data |-> heappop(data).heap,
               out |-> heappop(data).returnitem]
    ELSE IF Len(data) < 2
         THEN [raised |-> "IndexError", data |-> data, out |-> None]
         ELSE [raised |-> "TypeError", data |-> data, out |-> None]

\* self.as_sorted_list(include_values)
FairLimitedHeap_as_sorted_list ==
    /\ pc = "heap"
    /\ pc' = "observed"
    /\ \E include_values \in BOOLEAN :
          LET r == as_sorted_list(heap._data, include_values)
          IN  /\ heap' = [heap EXCEPT !._data = r.data]
              /\ call' = [op |-> "as_sorted_list",
                          include_values |-> include_values,
                          before |-> heap._data,
                          after |-> r.data,
                          out |-> r.out]
    /\ UNCHANGED <<Globals, guesses, guess, possibilities, unknown_pos, ret,
                   store, result, hist, solutions, solve_ret>>

\* self.pop(also_return_score)
FairLimitedHeap_pop ==
    /\ pc = "heap"
    /\ pc' = "observed"
    /\ \E also_return_score \in BOOLEAN :
          LET r == pop(heap._data, also_return_score)
          IN  /\ heap' = [heap EXCEPT !._data = r.data]
              /\ call' = [op |-> "pop",
                          also_return_score |-> also_return_score,
                          before |-> heap._data,
                          after |-> r.data,
                          raised |-> r.raised,
                          out |-> r.out]
    /\ UNCHANGED <<Globals, guesses, guess, possibilities, unknown_pos, ret,
                   store, result, hist, solutions, solve_ret>>

NextHeapOps ==
    \/ FairLimitedHeap_push
    \/ FairLimitedHeap_as_sorted_list
    \/ FairLimitedHeap_pop

SpecHeapOps == InitHeap /\ [][NextHeapOps]_vars

----------------------------------------------------------------------------
(* evaluate_guess as a function: calls chained on one answer, each output  *)
(* fed to the next call, from several input constraint states              *)

eerie == <<5, 5, 18, 9, 5>>
abcd == <<1, 2, 3, 4>>
\* 'sh4de': five characters, the third the digit 4 (its ASCII code)
sh4de == <<19, 8, 52, 4, 5>>

EvalWords == {arose, cider, sooty, until, eerie, tight}
EvalGuesses == EvalWords \cup {abcd, sh4de}

\* input states: every letter possible; position 3 emptied; vowels only
EvalStates ==
    {[p \in Positions |-> ascii_lowercase],
     [p \in Positions |-> IF p = 3 THEN {} ELSE ascii_lowercase],
     [p \in Positions |-> {1, 5, 9, 15, 21}]}

\* input unknown_pos strings: '' and 'ses'
EvalUnknowns == {<<>>, <<19, 5, 19>>}

MaxCalls == 2

InitEval ==
    /\ answer \in EvalGuesses
    /\ \E values \in EvalStates :
          /\ store = values
          /\ possibilities = [p \in Positions |-> p]
    /\ unknown_pos \in EvalUnknowns
    /\ pc = "eval"
    /\ known_five_letter_words = {}
    /\ word_list_text = <<>>
    /\ cls = GetMaximumInfoHardMode
    /\ start_from = None
    /\ guesses = <<>>
    /\ guess = None
    /\ ret = <<>>
    /\ result = Running
    /\ hist = <<>>
    /\ call = NoCall
    /\ solutions = <<>>
    /\ solve_ret = None
    /\ constraints = None
    /\ heap = NoHeap

\* done, unknown_pos, possibilities =
\*     wu.evaluate_guess(guess, answer, possibilities, unknown_pos)
evaluate_guess_call ==
    /\ pc = "eval"
    /\ Len(hist) < MaxCalls
    /\ \E g \in EvalGuesses :
          LET out == evaluate_guess(g, answer, possibilities, unknown_pos, store)
          IN  /\ call' = [op |-> "evaluate_guess", guess |-> g,
                          argument |-> possibilities,
                          before |-> Deref(possibilities, store),
                          unknown_before |-> unknown_pos,
                          out |-> out]
              /\ hist' = Append(hist, g)
              /\ guess' = g
              /\ store' = out.store
              /\ IF out.raised = ""
                 THEN /\ possibilities' = out.revised_poss
                      /\ unknown_pos' = out.unknown_pos
                 ELSE UNCHANGED <<possibilities, unknown_pos>>
    /\ UNCHANGED <<Globals, pc, guesses, ret, result, heap, solutions,
                   solve_ret>>

NextEval == evaluate_guess_call

SpecEval == InitEval /\ [][NextEval]_vars

\* the chain started as solve_from starts it: every letter possible at every
\* position, unknown_pos = ''
InitAllLetters ==
    /\ InitEval
    /\ store = [p \in Positions |-> ascii_lowercase]
    /\ unknown_pos = <<>>

SpecAllLetters == InitAllLetters /\ [][NextEval]_vars

----------------------------------------------------------------------------
(* GetMaximumInfoHardMode.score as a function *)

ScoreWords == {arose, curly, eerie, hasty, point, shade, sooty, tight}

\* letter_frequencies of the candidate lists [], ['eerie'], ['hasty', 'sooty'],
\* ['sooty', 'tight'] and of the eight words of CorpusA
ScoreFrequencies ==
    {Counter(<<>>), Counter(<<eerie>>), Counter(<<hasty, sooty>>),
     Counter(<<sooty, tight>>), Counter(SortedWords(CorpusA))}

\* untried_letters: every letter, none, those outside 'shade', and 'eoty'
ScoreUntried ==
    {SortedChars(ascii_lowercase), <<>>,
     SortedChars(ascii_lowercase \ Range(shade)), <<5, 15, 20, 25>>}

InitScore ==
    /\ pc = "score"
    /\ call = NoCall
    /\ solutions = <<>>
    /\ solve_ret = None
    /\ constraints = None
    /\ known_five_letter_words = {}
    /\ word_list_text = <<>>
    /\ cls = GetMaximumInfoHardMode
    /\ answer = None
    /\ start_from = None
    /\ guesses = <<>>
    /\ guess = None
    /\ possibilities = <<>>
    /\ unknown_pos = <<>>
    /\ ret = <<>>
    /\ store = <<>>
    /\ result = Running
    /\ hist = <<>>
    /\ heap = NoHeap

\* cls.score(letter_frequencies, untried_letters, w)
GetMaximumInfoHardMode_score ==
    /\ pc = "score"
    /\ \E w \in ScoreWords, letter_frequencies \in ScoreFrequencies,
          untried_letters \in ScoreUntried :
          call' = [op |-> "score", w |-> w,
                   letter_frequencies |-> letter_frequencies,
                   untried_letters |-> untried_letters,
                   out |-> untried_word_score(letter_frequencies,
                                              untried_letters, w)]
    /\ UNCHANGED <<Globals, pc, guesses, guess, possibilities, unknown_pos,
                   ret, store, result, hist, heap, solutions, solve_ret>>

NextScore == GetMaximumInfoHardMode_score

SpecScore == InitScore /\ [][NextScore]_vars

----------------------------------------------------------------------------
(* Strategy.solve: solve_from from every starting word, then the summary *)

\* `if v`: None and the empty tuple are false
Truthy(res) == res.kind = "trace" /\ res.trace # <<>>

\* the filter keeping every run
FilterKeepingAll(all) == all

\* {k: v for k, v in solutions.items() if v}
FilterNonAnswers(all) == [k \in {w \in DOMAIN all : Truthy(all[w])} |-> all[k]]

\* sum([len(i) for i in ...]) over the runs of the starting words in S
RECURSIVE SumLen(_, _)
SumLen(S, kept) ==
    IF S = {} THEN 0
    ELSE LET w == CHOOSE x \in S : TRUE
         IN  Len(kept[w].trace) + SumLen(S \ {w}, kept)

\* the dict Strategy.solve returns from the unfiltered runs; 'average moves'
\* is kept as the pair <<sum of lengths, number of runs>>. i[-1] fails on a
\* value that is None (TypeError) or empty (IndexError)
SolveReturn(all) ==
    LET kept == FilterNonAnswers(all)
        keys == DOMAIN kept
    IN  IF \E w \in keys : kept[w].kind # "trace"
        THEN [kind |-> "raised", exc |-> "TypeError"]
        ELSE IF \E w \in keys : kept[w].trace = <<>>
        THEN [kind |-> "raised", exc |-> "IndexError"]
        ELSE
        LET last(w) == kept[w].trace[Len(kept[w].trace)]
            solved == {w \in keys : last(w).Solved}
            traces == [w \in keys |-> kept[w].trace]
        IN  IF solved # {}
            THEN [kind |-> "dict", solutions |-> traces,
                  number_solved |-> Cardinality(solved),
                  average_moves |-> <<SumLen(solved, kept), Cardinality(solved)>>,
                  number_of_errors |->
                      Cardinality({w \in keys : last(w).ExhaustedErroneously})]
            ELSE [kind |-> "dict", solutions |-> traces, number_solved |-> 0]

\* one step of the comprehension over wu.known_five_letter_words after a
\* solve_from call has ended, and after the last one the rest of solve. The
\* runs do not depend on each other, so the order in which the set is
\* iterated is taken to be the sorted one
Strategy_solve ==
    /\ pc = "returned"
    /\ IF result.kind = "raised"
       THEN /\ pc' = "solved"
            /\ solve_ret' = [kind |-> "raised", exc |-> result.exc]
            /\ UNCHANGED <<solutions, start_from, guesses, guess, possibilities,
                           unknown_pos, ret, store, result, hist>>
       ELSE LET all == (start_from :> result) @@ solutions
                rest == known_five_letter_words \ DOMAIN all
            IN  /\ solutions' = all
                /\ IF rest = {}
                   THEN /\ pc' = "solved"
                        /\ solve_ret' = SolveReturn(all)
                        /\ UNCHANGED <<start_from, guesses, guess, possibilities,
                                       unknown_pos, ret, store, result, hist>>
                   ELSE /\ pc' = "call"
                        /\ start_from' = MinWord(rest)
                        /\ guesses' = <<>>
                        /\ guess' = None
                        /\ possibilities' = <<>>
                        /\ unknown_pos' = <<>>
                        /\ ret' = <<>>
                        /\ result' = Running
                        /\ hist' = <<>>
                        /\ UNCHANGED <<store, solve_ret>>
    /\ UNCHANGED <<known_five_letter_words, word_list_text, cls, answer, call,
                   heap, constraints>>

SolveStrategies == StrategiesA \ {RandomChoiceOnEachTurn}

InitSolve ==
    /\ known_five_letter_words = CorpusA
    /\ word_list_text = WordListText(CorpusA)
    /\ cls \in SolveStrategies
    /\ answer \in CorpusA
    /\ start_from = MinWord(CorpusA)
    /\ pc = "call"
    /\ guesses = <<>>
    /\ guess = None
    /\ possibilities = <<>>
    /\ unknown_pos = <<>>
    /\ ret = <<>>
    /\ store = <<>>
    /\ result = Running
    /\ hist = <<>>
    /\ call = NoCall
    /\ heap = NoHeap
    /\ solutions = <<>>
    /\ solve_ret = None
    /\ constraints = None

NextSolve ==
    \/ solve_from
    \/ Strategy_solve_from
    \/ SpecifyInitialGuessesMixIn_solve_from
    \/ Strategy_solve

SpecSolve == InitSolve /\ [][NextSolve]_vars

----------------------------------------------------------------------------
(* Strategy.solve_from called with a constraints dict that has one empty set *)

\* every letter possible at every position but the emptied one
EmptiedAt(k) == [p \in Positions |-> IF p = k THEN {} ELSE ascii_lowercase]

InitContradiction ==
    /\ known_five_letter_words = CorpusD
    /\ word_list_text = WordListText(CorpusD)
    /\ cls \in {GetMaximumInfoHardMode, RandomChoiceOnEachTurn}
    /\ answer \in CorpusD
    /\ start_from \in CorpusD
    /\ constraints \in {EmptiedAt(k) : k \in Positions}
    /\ pc = "call"
    /\ guesses = <<>>
    /\ guess = None
    /\ possibilities = <<>>
    /\ unknown_pos = <<>>
    /\ ret = <<>>
    /\ store = <<>>
    /\ result = Running
    /\ hist = <<>>
    /\ call = NoCall
    /\ heap = NoHeap
    /\ solutions = <<>>
    /\ solve_ret = None

NextContradiction ==
    \/ solve_from
    \/ Strategy_solve_from

SpecContradiction == InitContradiction /\ [][NextContradiction]_vars

----------------------------------------------------------------------------
(* Properties *)

\* the three tile rules on values, positions 1..5 left to right
RECURSIVE TileRules(_, _, _, _, _)
TileRules(state, unplaced, p, g, a) ==
    IF p > WordLen THEN [state |-> state, unplaced |-> unplaced]
    ELSE IF g[p] = a[p]
    THEN TileRules([state EXCEPT ![p] = {g[p]}], unplaced \ {g[p]}, p + 1, g, a)
    ELSE IF \E q \in Positions : a[q] = g[p]
    THEN TileRules([state EXCEPT ![p] = state[p] \ {g[p]}],
                   unplaced \cup {g[p]}, p + 1, g, a)
    ELSE TileRules([q \in Positions |-> state[q] \ {g[p]}], unplaced \ {g[p]},
                   p + 1, g, a)

\* C1: for every 5-letter guess and answer and every input state,
\* evaluate_guess returns the state the green, yellow and gray rules give when
\* applied to positions 1..5 from left to right, and the unplaced-known
\* letters they give
C1_EvaluateGuessFollowsTileRules ==
    (call.op = "evaluate_guess" /\ call.out.raised = "") =>
        LET rules == TileRules(call.before, Range(call.unknown_before), 1,
                               call.guess, answer)
        IN  /\ Deref(call.out.revised_poss, call.out.store) = rules.state
            /\ call.out.unknown_pos = SortedChars(rules.unplaced)

\* a second call of a chain whose guess has green, yellow and gray letters
C1_Witness ==
    /\ call.op = "evaluate_guess"
    /\ call.out.raised = ""
    /\ Len(hist) = 2
    /\ answer = arose
    /\ call.guess = sooty
    /\ call.out.unknown_pos = <<19>>

\* a word consistent with a constraint state and the unplaced-known letters
Consistent(w, state, unplaced) ==
    /\ \A p \in Positions : w[p] \in state[p]
    /\ Range(unplaced) \subseteq Range(w)

\* C2: enumerate_solutions returns exactly the corpus words consistent with
\* the constraint state and the unplaced-known letters, the first and the last
\* corpus word included, in lexicographic order
C2_EnumerateReturnsEveryConsistentWord ==
    \A i \in DOMAIN hist :
        hist[i].remaining =
            SelectSeq(SortedWords(known_five_letter_words),
                      LAMBDA w : Consistent(w, hist[i].after,
                                            hist[i].unknown_after))

\* the passes of the solve_from loops that evaluated a guess
GuessHist == SelectSeq(hist, LAMBDA e : e.guess # None)

\* C3: in a solve, the candidate set computed after a later guess is a subset
\* of the candidate set computed after every earlier guess
C3_MonotonicNarrowing ==
    \A i, j \in DOMAIN GuessHist :
        i < j => Range(GuessHist[j].remaining) \subseteq Range(GuessHist[i].remaining)

\* C4: in the trace a fixed-opening-sequence strategy returns, each move starts
\* from the constraint state and the unplaced-known letters the move before it
\* ended with, and the trace is the guesses in the order they were made
C4_DelegateContinuesSameSolve ==
    (pc = "returned" /\ cls.mixin /\ result.kind = "trace") =>
        /\ \A k \in 1..(Len(result.trace) - 1) :
              /\ Deref(result.trace[k + 1].InitialPossibleLetters, store)
                    = Deref(result.trace[k].PossibleLettersAfterGuess, store)
              /\ result.trace[k + 1].KnownLettersWithUnknownPositionBeforeGuess
                    = result.trace[k].KnownLettersWithUnknownPositionAfterGuess
        /\ Len(result.trace) = Len(GuessHist)
        /\ \A k \in DOMAIN result.trace :
              result.trace[k].Move = GuessHist[k].guess

\* C5: when an opening that is not the last one equals the answer, solve_from
\* returns a trace that ends with that guess, marked Solved
C5_SolvedOpeningEndsTheTrace ==
    (/\ pc = "returned"
     /\ cls.mixin
     /\ cls._initial_tries # <<>>
     /\ start_from = cls._initial_tries[1]
     /\ \E k \in 1..(Len(cls._initial_tries) - 1) : cls._initial_tries[k] = answer)
    => /\ result.kind = "trace"
       /\ result.trace # <<>>
       /\ result.trace[Len(result.trace)].Move = answer
       /\ result.trace[Len(result.trace)].Solved

\* C6: a fixed-opening-sequence strategy that never aborts, started from its
\* first opening, makes its k-th opening its k-th move for every k no earlier
\* opening solved, whatever the scores; a trace it returns is these moves
C6_OpeningsAreForced ==
    (/\ pc = "returned"
     /\ cls.mixin
     /\ ~cls.bail
     /\ cls._initial_tries # <<>>
     /\ start_from = cls._initial_tries[1])
    => /\ \A k \in DOMAIN cls._initial_tries :
             (\A j \in 1..(k - 1) : cls._initial_tries[j] # answer) =>
                 /\ Len(ret) >= k
                 /\ ret[k].Move = cls._initial_tries[k]
                 /\ ret[k].Solved = (cls._initial_tries[k] = answer)
       /\ result.kind = "trace" => result.trace = ret

\* openings shade, point with a random delegate and answer point: move 1 is
\* shade, not solved, and move 2 is point, solved
C6_Witness ==
    /\ pc = "returned"
    /\ cls = ShadePointThenRandomChoice
    /\ answer = point
    /\ result.kind = "trace"
    /\ Len(result.trace) = 2
    /\ result.trace[1].Move = shade /\ ~result.trace[1].Solved
    /\ result.trace[2].Move = point /\ result.trace[2].Solved

\* C7: a push never evicts some of the entries that share a score and keeps
\* others with that score
C7_EvictsWholeTieGroups ==
    heap.last # <<>> =>
        \A e \in Range(heap.last.popped), r \in Range(heap._data) : e[1] # r[1]

\* the entries of a list as a bag
BagOf(list) ==
    [e \in Range(list) |-> Cardinality({i \in DOMAIN list : list[i] = e})]

\* the reference rule: insert; if the size exceeds N and at least N entries
\* remain without the minimum-score entries, remove exactly those
ReferencePush(before, limit, entry) ==
    LET all == Append(before, entry)
        lowest == Min({all[i][1] : i \in DOMAIN all})
        kept == SelectSeq(all, LAMBDA e : e[1] # lowest)
    IN  IF Len(all) > limit /\ Len(kept) >= limit THEN kept ELSE all

\* C8: the contents after a push are those the reference rule gives
C8_PushFollowsReferenceRule ==
    heap.last # <<>> =>
        BagOf(heap._data)
            = BagOf(ReferencePush(heap.last.before, heap._soft_limit,
                                  heap.last.entry))

\* C9: after any pushes the heap holds at least min(N, number pushed) entries
C9_HoldsAtLeastSoftLimit ==
    Len(heap._data) >=
        (IF heap.pushed < heap._soft_limit THEN heap.pushed ELSE heap._soft_limit)

\* a push that evicted and left exactly N entries
C9_Witness ==
    /\ heap.last # <<>>
    /\ Len(heap.last.popped) = 2
    /\ Len(heap._data) = heap._soft_limit
    /\ heap.pushed > heap._soft_limit

\* C10: in a returned trace a move is flagged Solved exactly when its guess is
\* the answer
C10_SolvedIffGuessIsAnswer ==
    result.kind = "trace" =>
        \A k \in DOMAIN result.trace :
            result.trace[k].Solved = (result.trace[k].Move = answer)

\* C11: a returned trace of more than 6 moves none of which is the answer ends
\* with a move flagged ExhaustedErroneously and not Solved
C11_LongTraceEndsExhausted ==
    (/\ result.kind = "trace"
     /\ Len(result.trace) > 6
     /\ \A k \in DOMAIN result.trace : result.trace[k].Move # answer)
    => /\ result.trace[Len(result.trace)].ExhaustedErroneously
       /\ ~result.trace[Len(result.trace)].Solved

\* C12: every call of Strategy.solve_from with an answer and a starting word of
\* the corpus that has ended returned a non-empty trace, not an error
C12_StrategySolveFromReturnsATrace ==
    (pc = "returned" /\ ~cls.mixin) =>
        /\ result.kind = "trace"
        /\ result.trace # <<>>

\* C13: after a call of evaluate_guess the sets of the constraint state that
\* was passed to it hold what they held before the call
C13_EvaluateGuessLeavesArgumentAlone ==
    call.op = "evaluate_guess" => Deref(call.argument, store) = call.before

\* the score a pass of the loop gave to a candidate
ScoreIn(e, w) == e.scores[CHOOSE k \in DOMAIN e.keys : e.keys[k] = w]

\* C14: each pass of Strategy.solve_from ranks all the candidates the
\* enumerator returned by descending score, candidates of equal score in
\* lexicographic order, and the next guess is the first word of the ranking
C14_NextGuessIsTopOfRanking ==
    \A i \in DOMAIN hist :
        hist[i].by = "strategy" =>
            LET e == hist[i]
            IN  /\ Len(e.ranked) = Len(e.remaining)
                /\ Range(e.ranked) = Range(e.remaining)
                /\ \A a, b \in DOMAIN e.ranked :
                      a < b =>
                          \/ ScoreIn(e, e.ranked[a]) > ScoreIn(e, e.ranked[b])
                          \/ /\ ScoreIn(e, e.ranked[a]) = ScoreIn(e, e.ranked[b])
                             /\ SeqLess(e.ranked[a], e.ranked[b])
                /\ i < Len(hist) => hist[i + 1].guess = e.ranked[1]
                /\ (i = Len(hist) /\ pc = "strategy") => guess = e.ranked[1]

\* a pass that ranked candidates of equal score, followed by the next guess
C14_Witness ==
    /\ Len(hist) >= 2
    /\ hist[1].by = "strategy"
    /\ hist[1].guess # answer
    /\ \E a, b \in DOMAIN hist[1].ranked :
          /\ a < b
          /\ ScoreIn(hist[1], hist[1].ranked[a]) = ScoreIn(hist[1], hist[1].ranked[b])
    /\ hist[2].guess = hist[1].ranked[1]

\* the sum of f[c] over the members c of a set
RECURSIVE SumOver(_, _)
SumOver(S, f) ==
    IF S = {} THEN 0
    ELSE LET c == CHOOSE x \in S : TRUE IN f[c] + SumOver(S \ {c}, f)

\* C15: the MaxInformation score of a word is the sum of the frequencies of its
\* distinct letters that are untried, times the number of its distinct
\* letters, a function of the frequency map, the untried letters and the word
C15_ScoreIsUntriedFrequencySumTimesDistinct ==
    call.op = "score" =>
        call.out = SumOver(Range(call.w) \cap Range(call.untried_letters),
                           call.letter_frequencies)
                       * Cardinality(Range(call.w))

\* 'sooty' scored with o untried and s tried, both letters frequent
C15_Witness ==
    /\ call.op = "score"
    /\ call.w = sooty
    /\ 15 \in Range(call.untried_letters)
    /\ 19 \notin Range(call.untried_letters)
    /\ call.letter_frequencies[15] > 0
    /\ call.letter_frequencies[19] > 0
    /\ call.out > 0

\* fewer than (1 - t) * |corpus| candidates, in exact arithmetic
FewerThanThreshold(c, remaining, words) ==
    Len(remaining) * 100
        < (100 - c.reduction_needed_to_abort) * Cardinality(words)

\* C16: after a non-final opening that did not solve, a percentage-reduction
\* strategy with threshold t hands over to its delegate, which ranks the same
\* candidates, exactly when fewer than (1 - t) * |corpus| candidates remain;
\* otherwise its next guess is the next opening
C16_AbortsExactlyBelowThreshold ==
    (cls.mixin /\ cls.bail /\ AbortAsserts(cls)
        /\ cls._initial_tries # <<>> /\ start_from = cls._initial_tries[1]) =>
        \A i \in DOMAIN hist :
            (hist[i].by = "mixin" /\ hist[i].guess # answer) =>
                LET fewer == FewerThanThreshold(cls, hist[i].remaining,
                                                known_five_letter_words)
                    next == IF fewer THEN None ELSE cls._initial_tries[i + 1]
                IN  /\ i < Len(hist) =>
                          /\ hist[i + 1].guess = next
                          /\ fewer => /\ hist[i + 1].by = "strategy"
                                      /\ hist[i + 1].remaining = hist[i].remaining
                    /\ (i = Len(hist) /\ pc = "strategy") => guess = next
                    /\ (i = Len(hist) /\ pc = "mixin") =>
                          ~fewer /\ Head(guesses) = next

\* C17: a letter of a guess that is not in the answer, removed from every
\* position by that guess, is in no position's set in any constraint state a
\* later guess of the same solve starts from or produces
C17_AbsentLettersStayAbsent ==
    \A i, j \in DOMAIN GuessHist :
        i < j =>
            \A c \in Range(GuessHist[i].guess) \ Range(answer) :
                \A p \in Positions :
                    /\ c \notin GuessHist[j].before[p]
                    /\ c \notin GuessHist[j].after[p]

\* the last move of a run that returned a trace
LastMove(res) == res.trace[Len(res.trace)]

\* C18: a fixed-opening-sequence strategy started from a word other than its
\* first opening returns None with no guess evaluated and no move made, and the
\* runs that returned None are in neither the solutions nor the counts of the
\* dict Strategy.solve returns, and do not make it fail
C18_NoResultRunsAreLeftOut ==
    /\ (/\ pc = "returned"
        /\ cls.mixin
        /\ cls._initial_tries # <<>>
        /\ start_from # cls._initial_tries[1])
       => (result = ReturnedNone /\ hist = <<>> /\ ret = <<>>)
    /\ pc = "solved" =>
          LET traced == {w \in DOMAIN solutions : solutions[w].kind = "trace"}
          IN  /\ solve_ret.kind = "raised" => result.kind = "raised"
              /\ solve_ret.kind = "dict" =>
                    /\ DOMAIN solve_ret.solutions = traced
                    /\ solve_ret.number_solved =
                          Cardinality({w \in traced : LastMove(solutions[w]).Solved})
                    /\ "number_of_errors" \in DOMAIN solve_ret =>
                          solve_ret.number_of_errors =
                              Cardinality({w \in traced :
                                  LastMove(solutions[w]).ExhaustedErroneously})

\* solve of a three-opening strategy over the eight starting words: seven runs
\* returned None, and the dict holds the one run from 'shade', solved
C18_Witness ==
    /\ pc = "solved"
    /\ cls = ShadePointCurlyThenGetMaximumInfoHardMode
    /\ solve_ret.kind = "dict"
    /\ Cardinality(DOMAIN solutions) = 8
    /\ Cardinality({w \in DOMAIN solutions : solutions[w].kind = "None"}) = 7
    /\ DOMAIN solve_ret.solutions = {shade}
    /\ solve_ret.number_solved = 1
    /\ solve_ret.number_of_errors = 0

\* C19: with a percentage-reduction strategy whose threshold is unset or
\* outside [0, 1], no guess is ever evaluated and no move made, and a call that
\* has ended has failed
C19_BadThresholdFailsBeforeAnyGuess ==
    (cls.bail /\ ~AbortAsserts(cls)) =>
        /\ hist = <<>>
        /\ ret = <<>>
        /\ pc = "returned" => result.kind = "raised"

\* exactly 5 lowercase letters
ValidWord(w) == Len(w) = WordLen /\ Range(w) \subseteq ascii_lowercase

\* C20: a call of evaluate_guess whose guess or answer is not exactly 5
\* lowercase letters fails and leaves the caller's constraint state as it was
C20_InvalidWordIsRejected ==
    (call.op = "evaluate_guess" /\ ~(ValidWord(call.guess) /\ ValidWord(answer)))
    => /\ call.out.raised # ""
       /\ Deref(call.argument, store) = call.before

\* C21: with the corpus arose, until, sooty, cider and the max-info strategy,
\* a solve from any starting word of the corpus for any answer of the corpus
\* ends with a trace of at most 6 moves whose last move is the answer, marked
\* Solved; the guess until for the answer arose takes u out of position 1
C21_FourWordCorpusIsSolved ==
    (known_five_letter_words = CorpusD /\ cls = GetMaximumInfoHardMode) =>
        /\ pc = "returned" =>
              /\ result.kind = "trace"
              /\ result.trace # <<>>
              /\ Len(result.trace) <= 6
              /\ LastMove(result).Move = answer
              /\ LastMove(result).Solved
        /\ (answer = arose /\ start_from = until /\ hist # <<>>) =>
              21 \notin hist[1].after[1]

\* C22: a solve started from a constraint state with an empty position that
\* the starting guess does not pin ends without an error after that guess:
\* the candidate set is empty, no further guess is made, and the last move of
\* the returned trace is flagged ExhaustedErroneously
C22_EmptyPositionEndsExhausted ==
    (/\ pc = "returned"
     /\ constraints # None
     /\ \E p \in Positions : constraints[p] = {} /\ start_from[p] # answer[p])
    => /\ result.kind = "trace"
       /\ result.trace # <<>>
       /\ LastMove(result).ExhaustedErroneously
       /\ Len(result.trace) = 1
       /\ hist[1].remaining = <<>>


\* the permutations of 1..n
Orderings(n) == {p \in [1..n -> 1..n] : \A i, j \in 1..n : p[i] = p[j] => i = j}

\* C23: as_sorted_list returns exactly the payloads the heap retains, each
\* once, in ascending order of score (the pairs themselves when the scores
\* are asked for), and leaves the heap's contents unchanged
C23_SortedListIsRetainedByAscendingScore ==
    call.op = "as_sorted_list" =>
        /\ call.after = call.before
        /\ Len(call.out) = Len(call.before)
        /\ \E p \in Orderings(Len(call.before)) :
              /\ \A i \in 1..Len(call.before) :
                    call.out[i] = IF call.include_values
                                  THEN call.before[p[i]]
                                  ELSE call.before[p[i]][2]
              /\ \A i, j \in 1..Len(call.before) :
                    i < j => call.before[p[i]][1] <= call.before[p[j]][1]

C23_Witness ==
    /\ call.op = "as_sorted_list"
    /\ ~call.include_values
    /\ Len(call.before) = 3
    /\ call.before[2][1] > call.before[3][1]
    /\ call.out = <<1, 2, 2>>


\* C30: on a non-empty heap pop removes exactly the lowest (score, payload)
\* entry and leaves the others; by default it returns that entry's payload,
\* with also_return_score it returns the pair
C30_PopRemovesAndReturnsLowest ==
    (call.op = "pop" /\ call.before # <<>>) =>
        /\ call.raised = ""
        /\ \E i \in 1..Len(call.before) :
              /\ \A j \in 1..Len(call.before) :
                    ~SeqLess(call.before[j], call.before[i])
              /\ call.out = IF call.also_return_score
                            THEN call.before[i]
                            ELSE call.before[i][2]
              /\ BagOf(Append(call.after, call.before[i])) = BagOf(call.before)


\* C24: the first component evaluate_guess returns is true exactly when the
\* guess equals the answer, for every pair of five-character words and
\* whatever constraint state is passed in
C24_DoneIffGuessIsAnswer ==
    (call.op = "evaluate_guess" /\ call.out.raised = "") =>
        (call.out.solved <=> call.guess = answer)

C24_Witness ==
    /\ call.op = "evaluate_guess"
    /\ call.out.raised = ""
    /\ call.out.solved
    /\ call.guess = answer
    /\ call.before[3] = {}
    /\ Len(hist) = 2
    /\ hist[1] # answer


\* C25: Solved is terminal: in every trace a solve returns, a move flagged
\* Solved is the last move of the trace
C25_SolvedMoveIsLast ==
    (pc = "returned" /\ result.kind = "trace") =>
        \A i \in 1..Len(result.trace) :
            result.trace[i].Solved => i = Len(result.trace)


\* C26: the constraint states a Move record holds do not change while later
\* guesses are evaluated: at any time the record's before-state is the state
\* that held before its guess was evaluated, and its after-state is the state
\* that evaluation produced
C26_RecordedStatesAreFrozen ==
    \A i \in DOMAIN ret :
        i \in DOMAIN GuessHist =>
            /\ Deref(ret[i].InitialPossibleLetters, store) = GuessHist[i].before
            /\ Deref(ret[i].PossibleLettersAfterGuess, store) = GuessHist[i].after


\* C27: the untried letters handed to scoring after the k-th guess of a solve
\* hold no letter of the guesses 1..k, the guess just evaluated included
C27_UntriedLettersExcludeEveryGuess ==
    \A i \in DOMAIN GuessHist :
        \A j \in 1..i :
            Range(GuessHist[j].guess) \cap Range(GuessHist[i].untried_letters) = {}


C29_EmptyOpeningListFallsBackOnDelegate ==
    (pc = "returned" /\ cls.mixin /\ cls._initial_tries = <<>>) =>
        /\ result.kind # "None"
        /\ result.kind = "trace" =>
              (result.trace # <<>> /\ result.trace[1].Move = start_from)


\* C31: in a chain of evaluate_guess calls against one five-letter answer that starts
\* from the all-letters state with no unplaced letters, every state reached
\* keeps the answer's letter among the letters possible at each position,
\* every unplaced known letter occurs in the answer, and no position's set
\* is empty
C31_ConstraintStateIsSound ==
    ValidWord(answer) =>
        /\ \A p \in Positions : answer[p] \in store[possibilities[p]]
        /\ Range(unknown_pos) \subseteq Range(answer)
        /\ \A p \in Positions : store[possibilities[p]] # {}

C31_Witness ==
    /\ ValidWord(answer)
    /\ Len(hist) = 2
    /\ hist[1] # answer /\ hist[2] # answer
    /\ call.out.raised = ""
    /\ unknown_pos # <<>>
    /\ \E p \in Positions : store[possibilities[p]] = {answer[p]}
    /\ \E p \in Positions : Cardinality(store[possibilities[p]]) < AlphabetSize - 4


\* C32: no word is guessed twice in one trace: the guess words of the moves
\* of a returned trace are pairwise distinct
C32_NoWordIsGuessedTwice ==
    (pc = "returned" /\ result.kind = "trace") =>
        \A i, j \in DOMAIN result.trace :
            i < j => result.trace[i].Move # result.trace[j].Move


\* C33: after any sequence of pushes, every entry that push has evicted has a
\* score no higher than the score of every entry the heap still retains
C33_EvictedNeverOutscoreRetained ==
    \A e \in heap.evicted :
        \A i \in DOMAIN heap._data : e[1] <= heap._data[i][1]

C33_Witness ==
    /\ heap.pushed = MaxPushes
    /\ heap.evicted # {}
    /\ heap.last.popped = <<>>
    /\ Len(heap._data) >= 2
    /\ \E e \in heap.evicted :
          \E i \in DOMAIN heap._data : e[1] < heap._data[i][1]

====
